---- MODULE Spec2Model ----
(***************************************************************************)
(* Stubber: a mock HTTP API server (the variant with scripted endpoints).  *)
(* Strings that the code splits or slices are sequences of one-character   *)
(* strings; Go maps are functions with a finite domain (<< >> is the empty *)
(* map, and a nil map).                                                    *)
(***************************************************************************)
EXTENDS Integers, Sequences, FiniteSets, TLC

VARIABLES
    \* the server
    config,         \* Config.Endpoints, as json.Unmarshal left it
    phase,          \* "init", then "serving", or "crashed" when main panics
    pathEndpoints,  \* path -> the endpoints configured for it, in order
    pool,           \* the runtimes in JSRuntime.pool
    vms,            \* runtime -> its global bindings (globals) and, as
                    \* history (failedOnly), the endpoint whose evaluation
                    \* failed on it last when every evaluation it ran has
                    \* failed (NoEndpoint for a new runtime, MixedHistory
                    \* once an evaluation on it has completed)
    reqs,           \* the scripted requests in flight
    last,           \* the response written last, with its request
    \* extractPathValues, applied to drawn inputs
    patSegs, pathSegs, params, ppc,
    \* the response resolution, applied to drawn inputs
    rEndpoint, rHeaders, rEval, rResp, rpc,
    \* JSRuntime.Execute, called by concurrent handlers
    calls,          \* handler -> where it is, the runtime pool.Get gave
                    \* it, the return path Execute took, and how many
                    \* times it has put the runtime back
    borrowed        \* the runtimes pool.Get has handed out and pool.Put
                    \* has not taken back

serverVars == <<config, phase, pathEndpoints, pool, vms, reqs, last>>
pathVars == <<patSegs, pathSegs, params, ppc>>
resolveVars == <<rEndpoint, rHeaders, rEval, rResp, rpc>>
execVars == <<calls, borrowed>>
vars == <<config, phase, pathEndpoints, pool, vms, reqs, last,
          patSegs, pathSegs, params, ppc,
          rEndpoint, rHeaders, rEval, rResp, rpc,
          calls, borrowed>>

(***************************************************************************)
(* Go maps                                                                 *)
(***************************************************************************)
EmptyMap == << >>

\* m[k] = v
MapSet(m, k, v) == [x \in (DOMAIN m) \cup {k} |-> IF x = k THEN v ELSE m[x]]

(***************************************************************************)
(* strings                                                                 *)
(***************************************************************************)
Slash == "/"

\* strings.Split(s, "/"), given the part collected so far
RECURSIVE SplitFrom(_, _, _)
SplitFrom(s, i, cur) ==
    IF i > Len(s) THEN <<cur>>
    ELSE IF s[i] = Slash THEN <<cur>> \o SplitFrom(s, i + 1, <<>>)
    ELSE SplitFrom(s, i + 1, Append(cur, s[i]))

Split(s) == SplitFrom(s, 1, <<>>)

HasPrefix(s, c) == Len(s) >= 1 /\ s[1] = c
HasSuffix(s, c) == Len(s) >= 1 /\ s[Len(s)] = c

\* part[1:], keeping the closing brace
InnerKeepsBrace(part) == SubSeq(part, 2, Len(part))

\* part[1 : len(part)-1]
Inner(part) == SubSeq(part, 2, Len(part) - 1)

\* the loop of extractPathValues over patternParts[i..]
RECURSIVE ExtractFrom(_, _, _, _)
ExtractFrom(patternParts, pathParts, i, result) ==
    IF i > Len(patternParts) THEN result
    ELSE IF HasPrefix(patternParts[i], "{") /\ HasSuffix(patternParts[i], "}")
         THEN ExtractFrom(patternParts, pathParts, i + 1,
                          MapSet(result, Inner(patternParts[i]), pathParts[i]))
         ELSE ExtractFrom(patternParts, pathParts, i + 1, result)

extractPathValues(pattern, path) ==
    IF Len(Split(pattern)) # Len(Split(path)) THEN EmptyMap
    ELSE ExtractFrom(Split(pattern), Split(path), 1, EmptyMap)

(***************************************************************************)
(* Values.  A script evaluates to a goja value (Js...); Export turns it    *)
(* into a Go value (Go...), vm.Set turns a Go value into a goja value, and *)
(* encoding/json turns a Go value into a JSON document (Json...) and back. *)
(* A number is its integer part n and whether a fraction follows.          *)
(***************************************************************************)
JsNone == [t |-> "none"]            \* a nil goja.Value
JsUndefined == [t |-> "undefined"]
JsNull == [t |-> "null"]
JsNum(n, frac) == [t |-> "number", n |-> n, frac |-> frac]
JsStr(s) == [t |-> "string", s |-> s]
JsObj(m) == [t |-> "object", m |-> m]
JsFunc == [t |-> "function"]
JsReq(snap) == [t |-> "request", snap |-> snap]   \* a wrapped RequestData

GoNil == [t |-> "nil"]
GoInt64(n) == [t |-> "int64", n |-> n]
GoFloat64(n, frac) == [t |-> "float64", n |-> n, frac |-> frac]
GoString(s) == [t |-> "string", s |-> s]
GoMap(m) == [t |-> "map", m |-> m]
GoFunc == [t |-> "func"]
GoReq(snap) == [t |-> "RequestData", snap |-> snap]

JsonNull == [j |-> "null"]
JsonNum(n, frac) == [j |-> "number", n |-> n, frac |-> frac]
JsonStr(s) == [j |-> "string", s |-> s]
JsonObj(m) == [j |-> "object", m |-> m]
JsonReq(snap) == [j |-> "request", snap |-> snap]
JsonUnsupported == [j |-> "unsupported"]   \* Encode returns an error

\* goja's Value.Export
RECURSIVE Export(_)
Export(v) ==
    CASE v.t = "number" -> IF v.frac THEN GoFloat64(v.n, TRUE) ELSE GoInt64(v.n)
      [] v.t = "string" -> GoString(v.s)
      [] v.t = "object" -> GoMap([k \in DOMAIN v.m |-> Export(v.m[k])])
      [] v.t = "function" -> GoFunc
      [] v.t = "request" -> GoReq(v.snap)
      [] OTHER -> GoNil

\* goja's Runtime.ToValue, as vm.Set applies it
RECURSIVE ToValue(_)
ToValue(g) ==
    CASE g.t = "int64" -> JsNum(g.n, FALSE)
      [] g.t = "float64" -> JsNum(g.n, g.frac)
      [] g.t = "string" -> JsStr(g.s)
      [] g.t = "map" -> JsObj([k \in DOMAIN g.m |-> ToValue(g.m[k])])
      [] g.t = "func" -> JsFunc
      [] g.t = "RequestData" -> JsReq(g.snap)
      [] OTHER -> JsNull

\* json.Unmarshal into an `any`
RECURSIVE JsonDecode(_)
JsonDecode(d) ==
    CASE d.j = "number" -> GoFloat64(d.n, d.frac)
      [] d.j = "string" -> GoString(d.s)
      [] d.j = "object" -> GoMap([k \in DOMAIN d.m |-> JsonDecode(d.m[k])])
      [] OTHER -> GoNil

\* json.NewEncoder(w).Encode(v): the document written, or JsonUnsupported
\* when a value inside v has no JSON form (nothing is written then)
RECURSIVE JsonEncode(_)
JsonEncode(g) ==
    CASE g.t = "nil" -> JsonNull
      [] g.t = "int64" -> JsonNum(g.n, FALSE)
      [] g.t = "float64" -> JsonNum(g.n, g.frac)
      [] g.t = "string" -> JsonStr(g.s)
      [] g.t = "RequestData" -> JsonReq(g.snap)
      [] g.t = "map" ->
            IF \E k \in DOMAIN g.m : JsonEncode(g.m[k]) = JsonUnsupported
            THEN JsonUnsupported
            ELSE JsonObj([k \in DOMAIN g.m |-> JsonEncode(g.m[k])])
      [] OTHER -> JsonUnsupported

(***************************************************************************)
(* JSRuntime.Execute: the interpretation of the value a script evaluates   *)
(* to.                                                                     *)
(***************************************************************************)
DefaultStatus == 200

ScriptResult(body, status, headers) ==
    [Body |-> body, StatusCode |-> status, Headers |-> headers]

\* m["statusCode"], when it asserts to int64 or float64
StatusFromAsserted(m, dflt) ==
    IF "statusCode" \in DOMAIN m
    THEN IF m["statusCode"].t = "int64" THEN m["statusCode"].n
         ELSE IF m["statusCode"].t = "float64" THEN m["statusCode"].n
         ELSE dflt
    ELSE dflt

\* every entry of h, whatever its type
AllEntriesCoerced(h) ==
    [k \in DOMAIN h |-> IF h[k].t = "string" THEN h[k].s ELSE "coerced"]

\* the entries of h whose value asserts to string
StringEntries(h) ==
    LET keep == { k \in DOMAIN h : h[k].t = "string" }
    IN  [k \in keep |-> h[k].s]

HeadersFromAsserted(m) ==
    IF "headers" \in DOMAIN m /\ m["headers"].t = "map"
    THEN StringEntries(m["headers"].m)
    ELSE EmptyMap

\* lines 114-151: val is what RunString returned
InterpretResult(val) ==
    IF val.t \in {"none", "undefined", "null"}
    THEN ScriptResult(GoNil, DefaultStatus, EmptyMap)
    ELSE LET exported == Export(val)
         IN  IF exported.t = "map" /\ "body" \in DOMAIN exported.m
             THEN ScriptResult(exported.m["body"],
                               StatusFromAsserted(exported.m, DefaultStatus),
                               HeadersFromAsserted(exported.m))
             ELSE ScriptResult(exported, DefaultStatus, EmptyMap)

(***************************************************************************)
(* Scripts.  The source text of a script is configuration data; a script   *)
(* is modelled by what running it does to the runtime's global bindings    *)
(* and by its completion value:                                            *)
(*   literal     `(v)`                  evaluates to v                     *)
(*   ref         `name`                 the global's value, or a           *)
(*                                      ReferenceError when it is unbound  *)
(*   assign      `name = v`             binds the global, evaluates to v   *)
(*   assignThrow `name = v; throw ...`  binds the global, then throws      *)
(*   throw       `throw ...`            throws                             *)
(*   syntax      (does not parse)       RunString returns the parse error  *)
(* NoScript is the empty Script string of a static endpoint.               *)
(***************************************************************************)
MkScript(op, name, v) == [op |-> op, name |-> name, v |-> v]
NoScript == MkScript("none", "", JsUndefined)

NoError == ""

\* vm.RunString(script) on a runtime whose global bindings are `globals`
RunString(script, globals) ==
    CASE script.op = "literal" ->
            [val |-> script.v, err |-> NoError, globals |-> globals]
      [] script.op = "ref" ->
            IF script.name \in DOMAIN globals
            THEN [val |-> globals[script.name], err |-> NoError,
                  globals |-> globals]
            ELSE [val |-> JsNone, err |-> "ReferenceError", globals |-> globals]
      [] script.op = "assign" ->
            [val |-> script.v, err |-> NoError,
             globals |-> MapSet(globals, script.name, script.v)]
      [] script.op = "assignThrow" ->
            [val |-> JsNone, err |-> "Error",
             globals |-> MapSet(globals, script.name, script.v)]
      [] script.op = "throw" ->
            [val |-> JsNone, err |-> "Error", globals |-> globals]
      [] OTHER ->
            [val |-> JsNone, err |-> "SyntaxError", globals |-> globals]

\* the bindings every evaluation sets (lines 82-101)
BuiltinNames == {"console", "uuid", "now", "timestamp", "req", "request"}

SetBuiltins(globals, reqData) ==
    [n \in (DOMAIN globals) \cup BuiltinNames |->
        IF n = "console" THEN JsObj([log |-> JsFunc])
        ELSE IF n \in {"uuid", "now", "timestamp"} THEN JsFunc
        ELSE IF n \in {"req", "request"} THEN JsReq(reqData)
        ELSE globals[n]]

\* for key, value := range context { vm.Set(key, value) }
SetContext(globals, context) ==
    [n \in (DOMAIN globals) \cup (DOMAIN context) |->
        IF n \in DOMAIN context THEN ToValue(context[n]) ELSE globals[n]]

\* lines 81-106 on the runtime taken from the pool
Bind(globals, reqData, context) ==
    SetContext(SetBuiltins(globals, reqData), context)

\* lines 81-152: the bindings, the run, the result.  result is meaningful
\* when err = NoError.
Evaluate(script, reqData, context, globals) ==
    LET run == RunString(script, Bind(globals, reqData, context))
    IN  [err |-> run.err,
         val |-> run.val,
         result |-> IF run.err = NoError THEN InterpretResult(run.val)
                    ELSE ScriptResult(GoNil, 0, EmptyMap),
         globals |-> run.globals]

(***************************************************************************)
(* The response writer.                                                    *)
(***************************************************************************)
ContentType == "Content-Type"
ApplicationJson == "application/json"

\* textproto.CanonicalMIMEHeaderKey, on the header names in use
CanonicalHeaderKey(k) ==
    CASE k = "content-type" -> ContentType
      [] k = "x-test" -> "X-Test"
      [] OTHER -> k

\* w.Header().Set(k, v)
HeaderSet(h, k, v) == MapSet(h, CanonicalHeaderKey(k), v)

\* w.Header().Get(k)
HeaderGet(h, k) ==
    IF CanonicalHeaderKey(k) \in DOMAIN h THEN h[CanonicalHeaderKey(k)] ELSE ""

\* the orders in which `range m` may visit the keys of a map
Orders(S) ==
    { o \in [1..Cardinality(S) -> S] :
        \A i, j \in 1..Cardinality(S) : o[i] = o[j] => i = j }

\* for k, v := range m { w.Header().Set(k, v) }, visiting in `order`
RECURSIVE SetAllInOrder(_, _, _)
SetAllInOrder(h, m, order) ==
    IF Len(order) = 0 THEN h
    ELSE SetAllInOrder(HeaderSet(h, Head(order), m[Head(order)]), m, Tail(order))

HeadersAfter(h, m) == { SetAllInOrder(h, m, o) : o \in Orders(DOMAIN m) }

\* the default applied whether or not a Content-Type is there
ForceDefaultContentType(h) == HeaderSet(h, ContentType, ApplicationJson)

\* if w.Header().Get("Content-Type") == "" { ... Set(...) }
WithDefaultContentType(h) ==
    IF HeaderGet(h, ContentType) = ""
    THEN HeaderSet(h, ContentType, ApplicationJson)
    ELSE h

\* lines 382-388
ConfigHeaders(endpoint) ==
    { WithDefaultContentType(h) : h \in HeadersAfter(EmptyMap, endpoint.Headers) }

NoBody == [enc |-> "empty"]
TextBody(s) == [enc |-> "text", s |-> s]
JsonBody(doc) == [enc |-> "json", doc |-> doc]

\* json.NewEncoder(w).Encode(v), its error dropped
Encoded(v) ==
    IF JsonEncode(v) = JsonUnsupported THEN NoBody ELSE JsonBody(JsonEncode(v))

Response(status, headers, body) ==
    [status |-> status, headers |-> headers, body |-> body]

\* lines 445-452
ScriptedStatus(result, endpoint) ==
    LET s1 == result.StatusCode
        s2 == IF s1 = 0 THEN endpoint.StatusCode ELSE s1
    IN  IF s2 = 0 THEN DefaultStatus ELSE s2

\* the status of a static endpoint were the configured one ignored
StaticStatusAlwaysDefault(endpoint) == DefaultStatus

\* lines 460-463
StaticStatus(endpoint) ==
    IF endpoint.StatusCode = 0 THEN DefaultStatus ELSE endpoint.StatusCode

\* lines 440-456: h holds the headers set so far
ScriptedResponses(endpoint, h, result) ==
    { Response(ScriptedStatus(result, endpoint), h2, Encoded(result.Body)) :
        h2 \in HeadersAfter(h, result.Headers) }

\* lines 430-437
ScriptErrorResponse(h, err) ==
    Response(500, h,
             JsonBody(JsonObj([error |-> JsonStr("Script execution failed"),
                               details |-> JsonStr(err)])))

\* lines 459-466
StaticResponse(endpoint, h) ==
    Response(StaticStatus(endpoint), h, Encoded(endpoint.Response))

\* http.Error(w, "Method not allowed", http.StatusMethodNotAllowed)
MethodNotAllowedResponse ==
    Response(405,
             [x \in {ContentType, "X-Content-Type-Options"} |->
                 IF x = ContentType THEN "text/plain; charset=utf-8" ELSE "nosniff"],
             TextBody("Method not allowed"))

\* w.Write([]byte("ok")): an implicit 200, the content type sniffed
HealthResponse ==
    Response(200, [x \in {ContentType} |-> "text/plain; charset=utf-8"],
             TextBody("ok"))

\* the mux's answer for a path no pattern matches
NotFoundResponse ==
    Response(404,
             [x \in {ContentType, "X-Content-Type-Options"} |->
                 IF x = ContentType THEN "text/plain; charset=utf-8" ELSE "nosniff"],
             TextBody("404 page not found"))

NoResponse == Response(0, EmptyMap, NoBody)

(***************************************************************************)
(* Configuration and routing.                                              *)
(***************************************************************************)
MkEndpoint(path, method, status, response, headers, script, context) ==
    [Path |-> path, Method |-> method, StatusCode |-> status,
     Response |-> JsonDecode(response), Headers |-> headers,
     Script |-> script,
     Context |-> [k \in DOMAIN context |-> JsonDecode(context[k])]]

HealthPath == <<"/", "h", "e", "a", "l", "t", "h">>
OpenAPIPath == <<"/", "o", "p", "e", "n", "a", "p", "i", ".", "j", "s", "o", "n">>

\* lines 359-362, from endpoint i on: pathEndpoints[ep.Path] = append(..., ep)
RECURSIVE GroupFrom(_, _, _)
GroupFrom(endpoints, i, grouped) ==
    IF i > Len(endpoints) THEN grouped
    ELSE LET ep == endpoints[i]
             sofar == IF ep.Path \in DOMAIN grouped THEN grouped[ep.Path] ELSE <<>>
         IN  GroupFrom(endpoints, i + 1, MapSet(grouped, ep.Path, Append(sofar, ep)))

GroupByPath(endpoints) == GroupFrom(endpoints, 1, EmptyMap)

\* http.HandleFunc panics on a pattern that is registered already: main
\* registers /openapi.json, then every configured path, then /health
RegistrationPanics(grouped) ==
    OpenAPIPath \in DOMAIN grouped \/ HealthPath \in DOMAIN grouped

\* a route segment `{name}` of the mux matches any one segment
SegmentMatches(patternPart, pathPart) ==
    \/ HasPrefix(patternPart, "{") /\ HasSuffix(patternPart, "}")
    \/ patternPart = pathPart

\* the mux's match of a registered pattern against the request path
MuxMatches(pattern, path) ==
    LET pp == Split(pattern)
        cp == Split(path)
    IN  /\ Len(pp) = Len(cp)
        /\ \A i \in 1..Len(pp) : SegmentMatches(pp[i], cp[i])

\* the configured patterns that match the request path
MatchingPatterns(grouped, path) ==
    { p \in DOMAIN grouped : MuxMatches(p, path) }

\* the resolver were the first endpoint of the path always taken
FindFirstEndpoint(eps, method) == IF Len(eps) > 0 THEN 1 ELSE 0

\* the resolver were the last match taken
FindLastEndpoint(eps, method) ==
    LET hits == { i \in 1..Len(eps) : eps[i].Method = "" \/ eps[i].Method = method }
    IN  IF hits = {} THEN 0 ELSE CHOOSE i \in hits : \A j \in hits : j <= i

\* lines 369-375, from index i on: the index of the endpoint taken, 0 for nil
RECURSIVE FindFrom(_, _, _)
FindFrom(eps, method, i) ==
    IF i > Len(eps) THEN 0
    ELSE IF eps[i].Method = "" \/ eps[i].Method = method THEN i
    ELSE FindFrom(eps, method, i + 1)

FindEndpoint(eps, method) == FindFrom(eps, method, 1)

\* lines 393-426, for a request without query, headers or body
RequestData(method, path, pattern) ==
    [Method |-> method, Path |-> path,
     Params |-> extractPathValues(pattern, path)]

(***************************************************************************)
(* The server.                                                             *)
(***************************************************************************)
MaxEndpoints == 2
MaxRequests == 1

PathU == <<"/", "u", "/", "{", "i", "d", "}">>

ConfigMethods == {"", "GET", "POST"}
RequestMethods == {"GET", "POST", "PUT"}
RequestPaths == { <<"/", "u", "/", "7">>, HealthPath, <<"/", "z">> }

ExampleObject == JsonObj([x |-> JsonNum(1, FALSE)])

StaticEndpoints(path, method) ==
    { MkEndpoint(path, method, 0, JsonNull, EmptyMap, NoScript, EmptyMap),
      MkEndpoint(path, method, 201, ExampleObject, [x \in {"X-Test"} |-> "v"],
                 NoScript, EmptyMap) }

\* `throw ...` with context {"k": "v"}; `k`; `k = "w"`
LeakingEndpoints(path, method) ==
    { MkEndpoint(path, method, 0, JsonNull, EmptyMap,
                 MkScript("throw", "", JsUndefined), [k |-> JsonStr("v")]),
      MkEndpoint(path, method, 0, JsonNull, EmptyMap,
                 MkScript("ref", "k", JsUndefined), EmptyMap),
      MkEndpoint(path, method, 0, JsonNull, EmptyMap,
                 MkScript("assign", "k", JsStr("w")), EmptyMap) }

\* `({body: "b", statusCode: 202})`
StructuredEndpoint(path, method) ==
    MkEndpoint(path, method, 0, JsonNull, EmptyMap,
               MkScript("literal", "",
                        JsObj([body |-> JsStr("b"), statusCode |-> JsNum(202, FALSE)])),
               EmptyMap)

\* the endpoints a configuration of Spec is drawn from: scripts that bind,
\* read and throw, under two methods
ScriptCatalog ==
    UNION { LeakingEndpoints(PathU, m) : m \in {"", "GET"} }
    \cup { MkEndpoint(PathU, "POST", 201, ExampleObject, EmptyMap, NoScript, EmptyMap),
           MkEndpoint(HealthPath, "GET", 0, JsonNull, EmptyMap, NoScript, EmptyMap) }

\* the endpoints a configuration of SpecRoute is drawn from: static
\* endpoints under every method, and one scripted endpoint
RouteCatalog ==
    UNION { StaticEndpoints(PathU, m) : m \in ConfigMethods }
    \cup { StructuredEndpoint(PathU, "GET"),
           MkEndpoint(HealthPath, "GET", 0, JsonNull, EmptyMap, NoScript, EmptyMap) }

Configs(catalog) == UNION { [1..n -> catalog] : n \in 0..MaxEndpoints }

RequestIds == 1..MaxRequests
VmIds == 1..MaxRequests

NoEndpoint == MkEndpoint(<<>>, "", 0, JsonNull, EmptyMap, NoScript, EmptyMap)
NoRequestData == [Method |-> "", Path |-> <<>>, Params |-> EmptyMap]
NoEval == [err |-> NoError, val |-> JsNone,
           result |-> ScriptResult(GoNil, 0, EmptyMap), globals |-> EmptyMap]

IdleRequest ==
    [pc |-> "idle", ep |-> NoEndpoint, index |-> 0, headers |-> EmptyMap,
     reqData |-> NoRequestData, vm |-> 0, eval |-> NoEval,
     seen |-> EmptyMap, failedBefore |-> NoEndpoint]

MixedHistory ==
    MkEndpoint(<<>>, "mixed", 0, JsonNull, EmptyMap, NoScript, EmptyMap)

DeadVm == [globals |-> EmptyMap, failedOnly |-> NoEndpoint]

\* what `last` records of a response: the handler that wrote it, the
\* request, the endpoint taken (index in the path's list, 0 for none), the
\* runtime borrowed (0 for none) and the response
Served(kind, method, path, ep, index, req, resp) ==
    [kind |-> kind, method |-> method, path |-> path, ep |-> ep,
     index |-> index, req |-> req, resp |-> resp]

NothingServed ==
    Served("none", "", <<>>, NoEndpoint, 0, IdleRequest, NoResponse)

ServerInit(catalog) ==
    /\ config \in Configs(catalog)
    /\ phase = "init"
    /\ pathEndpoints = EmptyMap
    /\ pool = {}
    /\ vms = [v \in VmIds |-> DeadVm]
    /\ reqs = [r \in RequestIds |-> IdleRequest]
    /\ last = NothingServed

ServerIdle ==
    /\ config = <<>>
    /\ phase = "off"
    /\ pathEndpoints = EmptyMap
    /\ pool = {}
    /\ vms = [v \in VmIds |-> DeadVm]
    /\ reqs = [r \in RequestIds |-> IdleRequest]
    /\ last = NothingServed

\* main, up to ListenAndServe
Startup ==
    /\ phase = "init"
    /\ pathEndpoints' = GroupByPath(config)
    /\ phase' = IF RegistrationPanics(GroupByPath(config)) THEN "crashed"
                ELSE "serving"
    /\ UNCHANGED <<config, pool, vms, reqs, last, pathVars, resolveVars, execVars>>

\* the handler the mux runs for the request, when it is a configured path
Routed(path) == MatchingPatterns(pathEndpoints, path)

\* GET /health and every other method: the handler does not look at it
ServeHealth(method, path) ==
    /\ phase = "serving"
    /\ path = HealthPath
    /\ last' = Served("health", method, path, NoEndpoint, 0, IdleRequest,
                      HealthResponse)
    /\ UNCHANGED <<config, phase, pathEndpoints, pool, vms, reqs, pathVars, resolveVars, execVars>>

ServeNotFound(method, path) ==
    /\ phase = "serving"
    /\ path # HealthPath /\ path # OpenAPIPath
    /\ Routed(path) = {}
    /\ last' = Served("notfound", method, path, NoEndpoint, 0, IdleRequest,
                      NotFoundResponse)
    /\ UNCHANGED <<config, phase, pathEndpoints, pool, vms, reqs, pathVars, resolveVars, execVars>>

\* lines 369-380
ServeMethodNotAllowed(method, path) ==
    /\ phase = "serving"
    /\ \E pattern \in Routed(path) :
          /\ FindEndpoint(pathEndpoints[pattern], method) = 0
          /\ last' = Served("notallowed", method, path, NoEndpoint, 0,
                            IdleRequest, MethodNotAllowedResponse)
    /\ UNCHANGED <<config, phase, pathEndpoints, pool, vms, reqs, pathVars, resolveVars, execVars>>

\* lines 369-388 and 459-466
ServeStatic(method, path) ==
    /\ phase = "serving"
    /\ \E pattern \in Routed(path) :
          LET eps == pathEndpoints[pattern]
              i == FindEndpoint(eps, method)
          IN  /\ i # 0
              /\ eps[i].Script = NoScript
              /\ \E h \in ConfigHeaders(eps[i]) :
                    last' = Served("static", method, path, eps[i], i,
                                   IdleRequest, StaticResponse(eps[i], h))
    /\ UNCHANGED <<config, phase, pathEndpoints, pool, vms, reqs, pathVars, resolveVars, execVars>>

\* the runtimes that are neither pooled nor borrowed: New makes one of them
FreeVmIds == { v \in VmIds : v \notin pool /\ \A r \in RequestIds : reqs[r].vm # v }

LowestOf(S) == CHOOSE x \in S : \A y \in S : x <= y

\* lines 369-429 and 74: the handler of a scripted endpoint, up to and
\* with pool.Get (a pooled runtime, or a new one when the pool is empty)
BeginScripted(method, path) ==
    /\ phase = "serving"
    /\ \E r \in RequestIds : reqs[r].pc = "idle"
    /\ \E pattern \in Routed(path) :
          LET eps == pathEndpoints[pattern]
              i == FindEndpoint(eps, method)
              r == LowestOf({ q \in RequestIds : reqs[q].pc = "idle" })
          IN  /\ i # 0
              /\ eps[i].Script # NoScript
              /\ \E h \in ConfigHeaders(eps[i]) :
                 \E v \in (IF pool # {} THEN pool ELSE {LowestOf(FreeVmIds)}) :
                    /\ reqs' = [reqs EXCEPT ![r] =
                          [pc |-> "acquired", ep |-> eps[i], index |-> i,
                           headers |-> h,
                           reqData |-> RequestData(method, path, pattern),
                           vm |-> v, eval |-> NoEval, seen |-> EmptyMap,
                           failedBefore |-> NoEndpoint]]
                    /\ pool' = pool \ {v}
    /\ UNCHANGED <<config, phase, pathEndpoints, vms, last, pathVars, resolveVars, execVars>>

\* lines 81-152 on the borrowed runtime
EvaluateScript(r) ==
    /\ reqs[r].pc = "acquired"
    /\ LET q == reqs[r]
           v == q.vm
           ev == Evaluate(q.ep.Script, q.reqData, q.ep.Context, vms[v].globals)
       IN  /\ reqs' = [reqs EXCEPT ![r] =
                 [q EXCEPT !.pc = "evaluated", !.eval = ev,
                           !.seen = Bind(vms[v].globals, q.reqData, q.ep.Context),
                           !.failedBefore = vms[v].failedOnly]]
           /\ vms' = [vms EXCEPT ![v] =
                 [globals |-> ev.globals,
                  failedOnly |-> IF ev.err = NoError \/ vms[v].failedOnly = MixedHistory
                                 THEN MixedHistory ELSE q.ep]]
    /\ UNCHANGED <<config, phase, pathEndpoints, pool, last, pathVars, resolveVars, execVars>>

\* lines 75-79 (the deferred ClearInterrupt and pool.Put), then 430-456
FinishScripted(r) ==
    /\ reqs[r].pc = "evaluated"
    /\ LET q == reqs[r]
       IN  /\ pool' = pool \cup {q.vm}
           /\ reqs' = [reqs EXCEPT ![r] = IdleRequest]
           /\ IF q.eval.err # NoError
              THEN last' = Served("scripterror", q.reqData.Method, q.reqData.Path,
                                  q.ep, q.index, q,
                                  ScriptErrorResponse(q.headers, q.eval.err))
              ELSE \E resp \in ScriptedResponses(q.ep, q.headers, q.eval.result) :
                      last' = Served("scripted", q.reqData.Method, q.reqData.Path,
                                     q.ep, q.index, q, resp)
    /\ UNCHANGED <<config, phase, pathEndpoints, vms, pathVars, resolveVars, execVars>>

\* sync.Pool drops a pooled item at a garbage collection
PoolDrop(v) ==
    /\ v \in pool
    /\ pool' = pool \ {v}
    /\ vms' = [vms EXCEPT ![v] = DeadVm]
    /\ UNCHANGED <<config, phase, pathEndpoints, reqs, last, pathVars, resolveVars, execVars>>

Next ==
    \/ Startup
    \/ \E m \in RequestMethods, p \in RequestPaths : ServeHealth(m, p)
    \/ \E m \in RequestMethods, p \in RequestPaths : ServeNotFound(m, p)
    \/ \E m \in RequestMethods, p \in RequestPaths : ServeMethodNotAllowed(m, p)
    \/ \E m \in RequestMethods, p \in RequestPaths : ServeStatic(m, p)
    \/ \E m \in RequestMethods, p \in RequestPaths : BeginScripted(m, p)
    \/ \E r \in RequestIds : EvaluateScript(r)
    \/ \E r \in RequestIds : FinishScripted(r)
    \/ \E v \in VmIds : PoolDrop(v)

(***************************************************************************)
(* The response resolution on drawn inputs: one endpoint, static or with a *)
(* script that evaluates to a drawn value, answered on a new runtime.      *)
(***************************************************************************)
BodyValues ==
    { JsNull, JsUndefined, JsNum(1, FALSE), JsStr("b"),
      JsObj([x |-> JsNum(1, FALSE)]), JsFunc }

StatusValues ==
    { JsNum(201, FALSE), JsNum(0, FALSE), JsNum(404, TRUE), JsStr("201"), JsNull }

HeaderValues ==
    { JsObj(EmptyMap),
      JsObj([k \in {"X-Test"} |-> JsStr("s")]),
      JsObj([k \in {"X-Test"} |-> JsNum(1, FALSE)]),
      JsObj([k \in {"content-type"} |-> JsStr("text/html")]),
      JsObj([k \in {"x-test", "Y", "Content-Type"} |->
               IF k = "x-test" THEN JsStr("s2")
               ELSE IF k = "Y" THEN JsNum(1, FALSE) ELSE JsStr("")]),
      JsStr("h"), JsNull }

\* an object with any of the keys body, statusCode, headers, other
ObjectValues ==
    { JsObj([k \in ks |->
               CASE k = "body" -> b
                 [] k = "statusCode" -> s
                 [] k = "headers" -> h
                 [] OTHER -> JsNum(1, FALSE)]) :
        ks \in SUBSET {"body", "statusCode", "headers", "other"},
        b \in BodyValues, s \in StatusValues, h \in HeaderValues }

ScriptValues ==
    { JsNone, JsUndefined, JsNull, JsNum(7, FALSE), JsStr("s"), JsFunc }
    \cup ObjectValues

ConfiguredHeaders ==
    { EmptyMap,
      [k \in {"X-Test"} |-> "v"],
      [k \in {"content-type"} |-> "text/plain"],
      [k \in {"Content-Type"} |-> ""],
      [k \in {"Content-Type", "content-type"} |->
          IF k = "Content-Type" THEN "" ELSE "text/csv"],
      [k \in {"X-Test", "Content-Type"} |->
          IF k = "X-Test" THEN "v" ELSE "text/csv"] }

ConfiguredStatuses == {0, 404}

ResolveEndpoints ==
    { MkEndpoint(PathU, "GET", s, ExampleObject, h,
                 MkScript("literal", "", v), EmptyMap) :
        s \in ConfiguredStatuses, h \in ConfiguredHeaders, v \in ScriptValues }
    \cup
    { MkEndpoint(PathU, "GET", s, r, h, sc, EmptyMap) :
        s \in ConfiguredStatuses, h \in ConfiguredHeaders,
        r \in {JsonNull, ExampleObject},
        sc \in {NoScript, MkScript("throw", "", JsUndefined)} }

ResolveRequest == RequestData("GET", <<"/", "u", "/", "7">>, PathU)

ResolveInit ==
    /\ rEndpoint \in ResolveEndpoints
    /\ rHeaders = EmptyMap
    /\ rEval = NoEval
    /\ rResp = NoResponse
    /\ rpc = "start"

ResolveIdle ==
    /\ rEndpoint = NoEndpoint
    /\ rHeaders = EmptyMap
    /\ rEval = NoEval
    /\ rResp = NoResponse
    /\ rpc = "off"

\* lines 382-391
RHeaders ==
    /\ rpc = "start"
    /\ rHeaders' \in ConfigHeaders(rEndpoint)
    /\ rpc' = IF rEndpoint.Script # NoScript THEN "execute" ELSE "static"
    /\ UNCHANGED <<rEndpoint, rEval, rResp, serverVars, pathVars, execVars>>

\* line 429
RExecute ==
    /\ rpc = "execute"
    /\ rEval' = Evaluate(rEndpoint.Script, ResolveRequest, rEndpoint.Context,
                         EmptyMap)
    /\ rpc' = "respond"
    /\ UNCHANGED <<rEndpoint, rHeaders, rResp, serverVars, pathVars, execVars>>

\* lines 430-438
RRespondError ==
    /\ rpc = "respond"
    /\ rEval.err # NoError
    /\ rResp' = ScriptErrorResponse(rHeaders, rEval.err)
    /\ rpc' = "failed"
    /\ UNCHANGED <<rEndpoint, rHeaders, rEval, serverVars, pathVars, execVars>>

\* lines 440-456
RRespondScripted ==
    /\ rpc = "respond"
    /\ rEval.err = NoError
    /\ rResp' \in ScriptedResponses(rEndpoint, rHeaders, rEval.result)
    /\ rpc' = "scripted"
    /\ UNCHANGED <<rEndpoint, rHeaders, rEval, serverVars, pathVars, execVars>>

\* lines 459-466
RRespondStatic ==
    /\ rpc = "static"
    /\ rResp' = StaticResponse(rEndpoint, rHeaders)
    /\ rpc' = "served"
    /\ UNCHANGED <<rEndpoint, rHeaders, rEval, serverVars, pathVars, execVars>>

NextResolve ==
    \/ RHeaders
    \/ RExecute
    \/ RRespondError
    \/ RRespondScripted
    \/ RRespondStatic

(***************************************************************************)
(* Inputs of extractPathValues: a route template and a request path, each   *)
(* "/" followed by segments joined with "/".                               *)
(***************************************************************************)
MaxSegments == 2

TemplateSegments ==
    { <<>>, <<"a">>, <<"b">>, <<"{", "a", "}">>, <<"{", "b", "}">>,
      <<"{", "}">>, <<"{", "a">>, <<"a", "}">> }

ConcreteSegments == { <<>>, <<"a">>, <<"b">>, <<"7">> }

SegSeqs(S) == UNION { [1..n -> S] : n \in 1..MaxSegments }

\* "/" + strings.Join(segs, "/")
RECURSIVE JoinPath(_)
JoinPath(segs) ==
    IF Len(segs) = 0 THEN <<>>
    ELSE <<Slash>> \o Head(segs) \o JoinPath(Tail(segs))

PathInit ==
    /\ patSegs \in SegSeqs(TemplateSegments)
    /\ pathSegs \in SegSeqs(ConcreteSegments)
    /\ params = EmptyMap
    /\ ppc = "input"

PathIdle ==
    /\ patSegs = <<>>
    /\ pathSegs = <<>>
    /\ params = EmptyMap
    /\ ppc = "off"

ExtractStep ==
    /\ ppc = "input"
    /\ params' = extractPathValues(JoinPath(patSegs), JoinPath(pathSegs))
    /\ ppc' = "extracted"
    /\ UNCHANGED <<patSegs, pathSegs, serverVars, resolveVars, execVars>>

(***************************************************************************)
(* JSRuntime.Execute under concurrent handlers: each handler answers a     *)
(* request, by Execute for a scripted endpoint and without it otherwise.   *)
(***************************************************************************)
MaxCallers == 2

Callers == 1..MaxCallers

\* one more runtime than handlers: New can make one while others are pooled
Runtimes == 1..(MaxCallers + 1)

\* the returns of Execute: line 111, line 119, line 145, line 151
Outcomes == {"error", "nil", "structured", "verbatim"}

\* the handlers that answer without Execute: lines 377-380, lines 459-466
UnscriptedKinds == {"notallowed", "static"}

IdleCall == [pc |-> "idle", kind |-> "", vm |-> 0, outcome |-> "", puts |-> 0]

\* between pool.Get and the deferred pool.Put
Holds(c) == calls[c].pc \in {"running", "finished"}

HeldRuntimes == { calls[c].vm : c \in { d \in Callers : Holds(d) } }

\* sync.Pool.Get leaving the item it returns in the pool
PoolAfterGetKeeps(p, v) == p

\* sync.Pool.Get removes the item it returns from the pool
PoolAfterGet(p, v) == p \ {v}

\* what pool.Get may return: a pooled runtime, or the one New makes (Get
\* may treat the pool as empty)
GetChoices ==
    LET fresh == Runtimes \ (pool \cup HeldRuntimes)
    IN  pool \cup (IF fresh = {} THEN {} ELSE {LowestOf(fresh)})

\* the deferred function as if the error return left before it
DeferredSkipsError(outcome) == outcome # "error"

\* the function deferred at line 75 runs at every return of Execute
DeferredRuns(outcome) == outcome \in Outcomes

ExecInit ==
    /\ calls = [c \in Callers |-> IdleCall]
    /\ borrowed = {}

ExecIdle ==
    /\ calls = <<>>
    /\ borrowed = {}

\* line 74
ExecGet(c) ==
    /\ calls[c].pc = "idle"
    /\ \E v \in GetChoices :
          /\ calls' = [calls EXCEPT ![c] =
                [pc |-> "running", kind |-> "scripted", vm |-> v,
                 outcome |-> "", puts |-> 0]]
          /\ pool' = PoolAfterGet(pool, v)
          /\ borrowed' = borrowed \cup {v}
    /\ UNCHANGED <<config, phase, pathEndpoints, vms, reqs, last,
                   pathVars, resolveVars>>

\* lines 81-151, up to the return statement
ExecRun(c) ==
    /\ calls[c].pc = "running"
    /\ \E o \in Outcomes :
          calls' = [calls EXCEPT ![c].pc = "finished", ![c].outcome = o]
    /\ UNCHANGED <<serverVars, pathVars, resolveVars, borrowed>>

\* lines 75-79, at the return
ExecDeferred(c) ==
    /\ calls[c].pc = "finished"
    /\ IF DeferredRuns(calls[c].outcome)
       THEN /\ pool' = pool \cup {calls[c].vm}
            /\ borrowed' = borrowed \ {calls[c].vm}
            /\ calls' = [calls EXCEPT ![c].pc = "returned",
                                      ![c].puts = calls[c].puts + 1]
       ELSE /\ calls' = [calls EXCEPT ![c].pc = "returned"]
            /\ UNCHANGED <<pool, borrowed>>
    /\ UNCHANGED <<config, phase, pathEndpoints, vms, reqs, last,
                   pathVars, resolveVars>>

\* lines 377-380 and 459-466: the request is answered without Execute
ExecUnscripted(c) ==
    /\ calls[c].pc = "idle"
    /\ \E k \in UnscriptedKinds :
          calls' = [calls EXCEPT ![c] =
                [pc |-> "answered", kind |-> k, vm |-> 0,
                 outcome |-> "", puts |-> 0]]
    /\ UNCHANGED <<serverVars, pathVars, resolveVars, borrowed>>

\* lines 430-456 after Execute, and the handler's return
ExecRespond(c) ==
    /\ calls[c].pc \in {"returned", "answered"}
    /\ calls' = [calls EXCEPT ![c] = IdleCall]
    /\ UNCHANGED <<serverVars, pathVars, resolveVars, borrowed>>

\* sync.Pool drops a pooled item at a garbage collection
ExecPoolDrop(v) ==
    /\ v \in pool
    /\ pool' = pool \ {v}
    /\ UNCHANGED <<config, phase, pathEndpoints, vms, reqs, last,
                   pathVars, resolveVars, execVars>>

NextExec ==
    \/ \E c \in Callers : ExecGet(c)
    \/ \E c \in Callers : ExecRun(c)
    \/ \E c \in Callers : ExecDeferred(c)
    \/ \E c \in Callers : ExecUnscripted(c)
    \/ \E c \in Callers : ExecRespond(c)
    \/ \E v \in Runtimes : ExecPoolDrop(v)

(***************************************************************************)
(* Specifications.                                                         *)
(***************************************************************************)
\* the server, from a configuration of scripted endpoints
Init == ServerInit(ScriptCatalog) /\ PathIdle /\ ResolveIdle /\ ExecIdle

Spec == Init /\ [][Next]_vars

\* the server, from a configuration of mostly static endpoints
InitRoute == ServerInit(RouteCatalog) /\ PathIdle /\ ResolveIdle /\ ExecIdle

SpecRoute == InitRoute /\ [][Next]_vars

\* the response resolution alone
InitResolve == ServerIdle /\ PathIdle /\ ResolveInit /\ ExecIdle

SpecResolve == InitResolve /\ [][NextResolve]_vars

\* extractPathValues alone
InitPath == ServerIdle /\ PathInit /\ ResolveIdle /\ ExecIdle

NextPath == ExtractStep

SpecPath == InitPath /\ [][NextPath]_vars

\* Execute alone, under concurrent handlers
InitExec == ServerIdle /\ PathIdle /\ ResolveIdle /\ ExecInit

SpecExec == InitExec /\ [][NextExec]_vars

----------------------------------------------------------------------------
(***************************************************************************)
(* What the claims speak of, stated from the configuration and the         *)
(* response alone.                                                         *)
(***************************************************************************)
\* the endpoints configured for a path, in configuration order
PathGroup(path) == SelectSeq(config, LAMBDA e : e.Path = path)

\* the configured paths the request path is a route of
ConfiguredFor(path) ==
    { config[i].Path : i \in { j \in 1..Len(config) : MuxMatches(config[j].Path, path) } }

Accepts(e, method) == e.Method = "" \/ e.Method = method

Answered == last.kind # "none"

ByEndpoint == last.kind \in {"static", "scripted", "scripterror"}

\* endpoint i of the configuration is static, and the last request is one
\* to its path with its method (any method, for an empty one)
StaticRequestFor(i) ==
    /\ Answered
    /\ config[i].Script = NoScript
    /\ MuxMatches(config[i].Path, last.path)
    /\ Accepts(config[i], last.method)

AnsweredAsConfigured(i) ==
    /\ last.resp.status =
          (IF config[i].StatusCode = 0 THEN 200 ELSE config[i].StatusCode)
    /\ last.resp.body.enc = "json"
    /\ JsonDecode(last.resp.body.doc) = config[i].Response

\* no endpoint configured earlier for the same path takes the request
Unshadowed(i) ==
    \A j \in 1..(i - 1) :
        config[j].Path = config[i].Path => ~Accepts(config[j], last.method)

\* C1 as stated: every configured static endpoint answers a request with
\* its method to its path with its status code (200 for 0) and its
\* configured response as the body.
C1_AsClaimed ==
    \A i \in 1..Len(config) : StaticRequestFor(i) => AnsweredAsConfigured(i)

\* C1 amended: a configured static endpoint answers a request with its
\* method to its path with its status code (200 for 0) and its configured
\* response as the body, provided no endpoint configured earlier for the
\* same path has an empty method or the request's method.
C1_StaticUnshadowed ==
    \A i \in 1..Len(config) :
        StaticRequestFor(i) /\ Unshadowed(i) => AnsweredAsConfigured(i)

\* the second endpoint of a path answered, with its configured 201
C1_Witness ==
    /\ last.kind = "static"
    /\ last.index = 2
    /\ last.ep.StatusCode = 201
    /\ last.resp.status = 201
    /\ \E i \in 1..Len(config) :
          StaticRequestFor(i) /\ Unshadowed(i) /\ config[i] = last.ep

\* C2: the endpoint that answers is the first one, in configuration order,
\* of the endpoints of the matched path whose method is empty or equals the
\* request's; so an empty-method endpoint configured first answers every
\* method, and an exact-method endpoint configured first answers its own.
C2_FirstMatch ==
    ByEndpoint =>
        LET eps == PathGroup(last.ep.Path)
        IN  /\ last.index \in 1..Len(eps)
            /\ eps[last.index] = last.ep
            /\ Accepts(eps[last.index], last.method)
            /\ \A j \in 1..(last.index - 1) : ~Accepts(eps[j], last.method)
            /\ Accepts(eps[1], last.method) => last.index = 1

\* an empty-method endpoint answered in place of the exact-method endpoint
\* configured after it
C2_Witness ==
    /\ ByEndpoint
    /\ last.index = 1
    /\ last.ep.Method = ""
    /\ Len(PathGroup(last.ep.Path)) = 2
    /\ PathGroup(last.ep.Path)[2].Method = last.method

\* the last request went to a configured path none of whose endpoints
\* takes its method
NoEndpointTakes ==
    /\ Answered
    /\ ConfiguredFor(last.path) # {}
    /\ \A p \in ConfiguredFor(last.path) :
          \A i \in 1..Len(PathGroup(p)) : ~Accepts(PathGroup(p)[i], last.method)

\* C3: a request to a configured path none of whose endpoints takes its
\* method is answered 405 with the mux's error text and nothing of an
\* endpoint; the step that answers it leaves the pool, the runtimes and
\* the requests in flight as they were; and a request whose method an
\* endpoint of the path takes is not answered 405.
C3_MethodNotAllowed ==
    /\ [](NoEndpointTakes =>
            /\ last.resp = MethodNotAllowedResponse
            /\ last.ep = NoEndpoint
            /\ last.req.vm = 0)
    /\ [](Answered /\ ConfiguredFor(last.path) # {} /\ ~NoEndpointTakes =>
            last.resp.status # 405)
    /\ [][last'.resp.status = 405 /\ last' # last =>
            pool' = pool /\ vms' = vms /\ reqs' = reqs]_vars

\* a 405 on a path with two endpoints, one of them scripted
C3_Witness ==
    /\ NoEndpointTakes
    /\ last.resp.status = 405
    /\ \E p \in ConfiguredFor(last.path) :
          /\ Len(PathGroup(p)) = 2
          /\ \E i \in 1..2 : PathGroup(p)[i].Script # NoScript

(***************************************************************************)
(* C4, C5, C8: the response resolution.                                    *)
(***************************************************************************)
ScriptValue == rEndpoint.Script.v

Structured == ScriptValue.t = "object" /\ "body" \in DOMAIN ScriptValue.m

\* the script's value carries a numeric statusCode beside its body
SuppliesStatus ==
    /\ Structured
    /\ "statusCode" \in DOMAIN ScriptValue.m
    /\ ScriptValue.m["statusCode"].t = "number"

\* C4 as stated: the status of a scripted response is the script's status
\* code when it supplied a non-zero one, else the endpoint's configured
\* status code when that is non-zero, else 200.
C4_AsClaimed ==
    rpc = "scripted" =>
        rResp.status =
            (IF SuppliesStatus /\ ScriptValue.m["statusCode"].n # 0
             THEN ScriptValue.m["statusCode"].n
             ELSE IF rEndpoint.StatusCode # 0 THEN rEndpoint.StatusCode
             ELSE 200)

KeysFor(m, c) == { k \in DOMAIN m : CanonicalHeaderKey(k) = c }
ValuesFor(m, c) == { m[k] : k \in KeysFor(m, c) }
CanonicalKeys(m) == { CanonicalHeaderKey(k) : k \in DOMAIN m }

\* the headers of the script result (none for a static endpoint)
ResultHeaders == IF rpc = "scripted" THEN rEval.result.Headers ELSE EmptyMap

Resolved == rpc \in {"scripted", "served"}

\* the layering of every header but the Content-Type default
Layered(c) ==
    IF KeysFor(ResultHeaders, c) # {}
    THEN rResp.headers[c] \in ValuesFor(ResultHeaders, c)
    ELSE KeysFor(rEndpoint.Headers, c) # {} =>
            \/ rResp.headers[c] \in ValuesFor(rEndpoint.Headers, c)
            \/ c = ContentType /\ rResp.headers[c] = ApplicationJson

LayersSet(c) ==
    KeysFor(rEndpoint.Headers, c) # {} \/ KeysFor(ResultHeaders, c) # {}

\* C5 as stated: the endpoint's headers, then the script result's over
\* them, and Content-Type is application/json exactly when neither sets it.
C5_AsClaimed ==
    Resolved =>
        /\ DOMAIN rResp.headers =
              CanonicalKeys(rEndpoint.Headers) \cup CanonicalKeys(ResultHeaders)
              \cup {ContentType}
        /\ \A c \in DOMAIN rResp.headers : Layered(c)
        /\ rResp.headers[ContentType] = ApplicationJson <=> ~LayersSet(ContentType)

\* the endpoint configures a Content-Type, and at least one it configures
\* is not empty
ConfiguresContentType ==
    \E k \in KeysFor(rEndpoint.Headers, ContentType) : rEndpoint.Headers[k] # ""

\* C5 amended: the endpoint's headers, then the script result's over them.
\* A Content-Type of the script result is the response's; without one the
\* response's is a non-empty Content-Type the endpoint configures, and
\* application/json when the endpoint configures none or an empty one.
C5_Layered ==
    Resolved =>
        /\ DOMAIN rResp.headers =
              CanonicalKeys(rEndpoint.Headers) \cup CanonicalKeys(ResultHeaders)
              \cup {ContentType}
        /\ \A c \in DOMAIN rResp.headers : Layered(c)
        /\ KeysFor(ResultHeaders, ContentType) = {} =>
              /\ rResp.headers[ContentType] # ""
              /\ ~ConfiguresContentType =>
                    rResp.headers[ContentType] = ApplicationJson
              /\ ("" \notin ValuesFor(rEndpoint.Headers, ContentType)
                  /\ ConfiguresContentType) =>
                    rResp.headers[ContentType] \in
                        ValuesFor(rEndpoint.Headers, ContentType)

\* the endpoint configures an empty Content-Type, the script overwrites
\* another header, and the response's Content-Type is the default
C5_Witness ==
    /\ rpc = "scripted"
    /\ rEndpoint.Headers = [k \in {"Content-Type"} |-> ""]
    /\ "X-Test" \in DOMAIN rResp.headers
    /\ rResp.headers[ContentType] = ApplicationJson

Evaluated == rpc \in {"respond", "scripted"} /\ rEval.err = NoError

\* the string-valued entries of the script value's `headers` object
StringHeaders ==
    IF "headers" \in DOMAIN ScriptValue.m /\ ScriptValue.m["headers"].t = "object"
    THEN LET h == ScriptValue.m["headers"].m
         IN  [k \in { x \in DOMAIN h : h[x].t = "string" } |-> h[k].s]
    ELSE EmptyMap

\* C8: the Script Result follows from the script's value by one of three
\* rules: no value, undefined or null give a nil body, status 200 and no
\* headers; an object with a body key gives that body, the integer of a
\* numeric statusCode (200 without one) and the string-valued entries of
\* its headers object; any other value is the body, with status 200 and no
\* headers.
C8_ResultRules ==
    Evaluated =>
        IF ScriptValue.t \in {"none", "undefined", "null"}
        THEN rEval.result = ScriptResult(GoNil, 200, EmptyMap)
        ELSE IF Structured
        THEN /\ rEval.result.Body = Export(ScriptValue.m["body"])
             /\ rEval.result.StatusCode =
                   (IF SuppliesStatus THEN ScriptValue.m["statusCode"].n ELSE 200)
             /\ rEval.result.Headers = StringHeaders
        ELSE rEval.result = ScriptResult(Export(ScriptValue), 200, EmptyMap)

\* a structured value with a fractional status and a header that is not a
\* string: the status is its integer, the header is dropped
C8_Witness ==
    /\ Evaluated
    /\ Structured
    /\ SuppliesStatus
    /\ ScriptValue.m["statusCode"].frac
    /\ rEval.result.StatusCode = 404
    /\ "headers" \in DOMAIN ScriptValue.m
    /\ ScriptValue.m["headers"].t = "object"
    /\ "Y" \in DOMAIN ScriptValue.m["headers"].m
    /\ DOMAIN rEval.result.Headers = {"x-test", "Content-Type"}

(***************************************************************************)
(* C6, C7, C10: the pooled runtimes and the health handler.                *)
(***************************************************************************)
ScriptedAnswer == last.kind \in {"scripted", "scripterror"}

\* what the endpoint would answer the request of `last` on a new runtime
FreshAnswers ==
    LET q == last.req
        ev == Evaluate(q.ep.Script, q.reqData, q.ep.Context, EmptyMap)
    IN  IF ev.err # NoError THEN { ScriptErrorResponse(q.headers, ev.err) }
        ELSE ScriptedResponses(q.ep, q.headers, ev.result)

\* C6 as stated: a failed script is answered 500 with error "Script
\* execution failed" and the detail, and a later request to another
\* scripted endpoint on the runtime the failed one used is answered as it
\* would be had the failed request never happened.
C6_AsClaimed ==
    /\ last.kind = "scripterror" =>
          /\ last.resp.status = 500
          /\ last.resp.body =
                JsonBody(JsonObj([error |-> JsonStr("Script execution failed"),
                                  details |-> JsonStr(last.req.eval.err)]))
    /\ (/\ ScriptedAnswer
        /\ last.req.failedBefore \notin {NoEndpoint, MixedHistory, last.ep}) =>
          last.resp \in FreshAnswers

\* C7 as stated: a pooled runtime holds no binding beyond the built-in
\* ones, and an evaluation sees only the built-in bindings, its own request
\* and its own endpoint's context keys.
C7_AsClaimed ==
    /\ \A v \in pool : DOMAIN vms[v].globals \subseteq BuiltinNames
    /\ \A r \in RequestIds :
          reqs[r].pc = "evaluated" =>
              /\ DOMAIN reqs[r].seen \subseteq
                    BuiltinNames \cup DOMAIN reqs[r].ep.Context
              /\ \A n \in {"req", "request"} \ DOMAIN reqs[r].ep.Context :
                    reqs[r].seen[n] = JsReq(reqs[r].reqData)

\* C10 as stated: whatever the configuration holds the server starts, and
\* a request to /health is answered 200 with body ok.
C10_AsClaimed ==
    /\ phase # "crashed"
    /\ (Answered /\ last.path = HealthPath) => last.resp = HealthResponse

(***************************************************************************)
(* C12: a result body that cannot be encoded.                              *)
(***************************************************************************)
\* the script completed and its result body is one json cannot encode
Unserializable ==
    /\ rpc = "scripted"
    /\ JsonEncode(rEval.result.Body) = JsonUnsupported

\* C12 as stated: a scripted request whose result body cannot be
\* serialized as JSON is answered 500 with an error body, as a failed
\* script is, and not with the success status and an empty body.
C12_AsClaimed ==
    Unserializable =>
        /\ rResp.status = 500
        /\ rResp.body.enc = "json"
        /\ rResp.body.doc.j = "object"
        /\ "error" \in DOMAIN rResp.body.doc.m

(***************************************************************************)
(* C11, C13: the pool under concurrent handlers.                           *)
(***************************************************************************)
\* C11: a runtime is held by at most one handler at any moment: between a
\* handler's pool.Get and its pool.Put the runtime is not in the pool, no
\* other handler holds it, and no step hands a held runtime to a handler.
C11_HeldByOne ==
    /\ [](\A c \in Callers :
            Holds(c) =>
                /\ calls[c].vm \in Runtimes
                /\ calls[c].vm \notin pool
                /\ \A d \in Callers \ {c} :
                      Holds(d) => calls[d].vm # calls[c].vm)
    /\ [][\A c \in Callers :
            (calls[c].pc = "idle" /\ calls'[c].pc = "running") =>
                calls'[c].vm \notin HeldRuntimes]_vars

\* two handlers hold a runtime each at once, one of them a runtime that
\* went through the pool, and a third runtime is pooled
C11_Witness ==
    /\ Holds(1) /\ Holds(2)
    /\ calls[1].vm = 2 /\ calls[2].vm = 1
    /\ pool = {3}

\* no handler is between pool.Get and pool.Put
NoneInFlight == \A c \in Callers : ~Holds(c)

\* C13: every call of Execute puts the runtime it got back exactly once,
\* on each of its returns, the error return included, and not before the
\* evaluation has finished; the runtimes handed out and not taken back are
\* those the handlers in flight hold, so none is when no handler is in
\* flight; and a handler answering a static endpoint or a 405 gets no
\* runtime and leaves the pool as it is.
C13_PutOnce ==
    /\ [](\A c \in Callers :
            /\ Holds(c) => calls[c].puts = 0
            /\ calls[c].pc = "returned" => calls[c].puts = 1
            /\ calls[c].kind \in UnscriptedKinds =>
                  calls[c].vm = 0 /\ calls[c].puts = 0)
    /\ [](borrowed = HeldRuntimes)
    /\ [](NoneInFlight => borrowed = {})
    /\ [][\A v \in pool' \ pool :
            \E c \in Callers :
                /\ calls[c].vm = v
                /\ calls[c].pc = "finished"
                /\ calls'[c].pc = "returned"]_vars
    /\ [][\A c \in Callers :
            (calls'[c] # calls[c] /\ calls'[c].kind \in UnscriptedKinds) =>
                pool' = pool /\ borrowed' = borrowed]_vars

\* a call that took the error return has put its runtime back, once, while
\* another handler has answered a 405, and nothing is borrowed
C13_Witness ==
    /\ calls[1].pc = "returned"
    /\ calls[1].outcome = "error"
    /\ calls[1].puts = 1
    /\ calls[1].vm \in pool
    /\ calls[2].pc = "answered"
    /\ calls[2].kind = "notallowed"
    /\ borrowed = {}

(***************************************************************************)
(* C9: extractPathValues.                                                  *)
(***************************************************************************)
IsPlaceholder(seg) == HasPrefix(seg, "{") /\ HasSuffix(seg, "}")

PlaceholderName(seg) == SubSeq(seg, 2, Len(seg) - 1)

\* the match of the claim: equal segment counts, literal segments equal
TemplateMatches ==
    /\ Len(patSegs) = Len(pathSegs)
    /\ \A i \in 1..Len(patSegs) :
          IsPlaceholder(patSegs[i]) \/ patSegs[i] = pathSegs[i]

PlaceholderPositions(name) ==
    { i \in 1..Len(patSegs) :
        IsPlaceholder(patSegs[i]) /\ PlaceholderName(patSegs[i]) = name }

LastPosition(name) ==
    CHOOSE i \in PlaceholderPositions(name) :
        \A j \in PlaceholderPositions(name) : j <= i

PlaceholderNames ==
    { PlaceholderName(patSegs[i]) :
        i \in { j \in 1..Len(patSegs) : IsPlaceholder(patSegs[j]) } }

\* C9 as stated: a match binds every placeholder to the segment at its
\* position, and a failed match (a different segment count, or a literal
\* segment that differs) extracts the empty mapping.
C9_AsClaimed ==
    ppc = "extracted" =>
        IF TemplateMatches
        THEN /\ DOMAIN params = PlaceholderNames
             /\ \A i \in 1..Len(patSegs) :
                   IsPlaceholder(patSegs[i]) =>
                       params[PlaceholderName(patSegs[i])] = pathSegs[i]
        ELSE params = EmptyMap

\* C9 amended: extractPathValues compares the segment counts only. With
\* different counts the mapping is empty; with equal counts every
\* placeholder name is bound to the concrete segment at the last position
\* of that name, whether or not the literal segments agree.
C9_Extract ==
    ppc = "extracted" =>
        IF Len(patSegs) # Len(pathSegs)
        THEN params = EmptyMap
        ELSE /\ DOMAIN params = PlaceholderNames
             /\ \A name \in PlaceholderNames :
                   params[name] = pathSegs[LastPosition(name)]

\* a literal segment differs and a placeholder was still bound
C9_Witness ==
    /\ ppc = "extracted"
    /\ Len(patSegs) = Len(pathSegs)
    /\ ~TemplateMatches
    /\ params # EmptyMap

====
